---- MODULE Spec2Model ----
(***************************************************************************)
(* A model of mkb_scrape/scraper.py: the crawl loop of MKBScraper.scrape,  *)
(* the catalogue URL collection and range filter, entry normalisation,     *)
(* the duplicate merge, the code sort key and the text normaliser.         *)
(*                                                                         *)
(* A Python str is a sequence of characters; a character is a one-element  *)
(* string, or a name (TAB, NBSP, NDASH, SCARON, scaron) for a character    *)
(* that is not printable ASCII.                                            *)
(***************************************************************************)
EXTENDS Integers, Sequences, FiniteSets, TLC

VARIABLES pc, index_path, delay, catalog_pages, idx, entries, page_entries, dropped,
          log, result, error, arg, ret

vars == <<pc, index_path, delay, catalog_pages, idx, entries, page_entries, dropped,
          log, result, error, arg, ret>>

(***************************************************************************)
(* Characters, in code point order.                                        *)
(***************************************************************************)
CodePoints ==
    <<"TAB", " ", "&", "(", ")", "-", ".", "/",
      "0", "1", "2", "3", "4", "5", "6", "7", "8", "9",
      ":", ";", "<", "?",
      "A", "B", "C", "D", "E", "F", "G", "H", "I", "J", "K", "L", "M",
      "N", "O", "P", "Q", "R", "S", "T", "U", "V", "W", "X", "Y", "Z",
      "a", "b", "c", "d", "e", "f", "g", "h", "i", "j", "k", "l", "m",
      "n", "o", "p", "q", "r", "s", "t", "u", "v", "w", "x", "y", "z", "|",
      "NBSP", "SCARON", "scaron", "NDASH", "MDASH">>

Ord(c) == CHOOSE i \in DOMAIN CodePoints : CodePoints[i] = c

UpperLetters ==
    <<"A", "B", "C", "D", "E", "F", "G", "H", "I", "J", "K", "L", "M",
      "N", "O", "P", "Q", "R", "S", "T", "U", "V", "W", "X", "Y", "Z", "SCARON">>

LowerLetters ==
    <<"a", "b", "c", "d", "e", "f", "g", "h", "i", "j", "k", "l", "m",
      "n", "o", "p", "q", "r", "s", "t", "u", "v", "w", "x", "y", "z", "scaron">>

\* [A-Z]
IsUpper(c) == \E i \in 1..26 : UpperLetters[i] = c

\* \d and [0-9]
IsDigit(c) == c \in {"0", "1", "2", "3", "4", "5", "6", "7", "8", "9"}

\* [0-9A-Z]
IsAlnumUpper(c) == IsDigit(c) \/ IsUpper(c)

\* \s, and what str.strip() removes
IsSpace(c) == c \in {"TAB", " ", "NBSP"}

\* the lower-case form a re.IGNORECASE match compares
Lower(c) ==
    IF \E i \in DOMAIN UpperLetters : UpperLetters[i] = c
    THEN LowerLetters[CHOOSE i \in DOMAIN UpperLetters : UpperLetters[i] = c]
    ELSE c

\* str < str: lexicographic on code points
RECURSIVE StrLess(_, _)
StrLess(a, b) ==
    IF b = <<>> THEN FALSE
    ELSE IF a = <<>> THEN TRUE
    ELSE IF Head(a) = Head(b) THEN StrLess(Tail(a), Tail(b))
    ELSE Ord(Head(a)) < Ord(Head(b))

\* membership of a character in a regular expression's character class
InClass(c, class) ==
    CASE class = "upper"   -> IsUpper(c)
      [] class = "digit"   -> IsDigit(c)
      [] class = "alnum"   -> IsAlnumUpper(c)
      [] class = "space"   -> IsSpace(c)
      [] class = "refchar" -> c \notin {"TAB", " ", "<", "&", ";"}

\* the length of the longest prefix of s whose characters are all of the class
RECURSIVE SpanLen(_, _)
SpanLen(s, class) ==
    IF s = <<>> \/ ~InClass(Head(s), class) THEN 0 ELSE 1 + SpanLen(Tail(s), class)

Drop(s, n) == SubSeq(s, n + 1, Len(s))

\* the least element of a set of numbers, 0 for the empty set
MinOrZero(S) == IF S = {} THEN 0 ELSE CHOOSE i \in S : \A j \in S : i <= j

MaxOf(S) == CHOOSE i \in S : \A j \in S : j <= i

Take(s, n) == SubSeq(s, 1, n)

\* str.startswith
StartsWith(s, p) == Len(p) <= Len(s) /\ Take(s, Len(p)) = p

\* str.strip(chars): characters of the set removed from both ends
RECURSIVE LStrip(_, _)
LStrip(s, chars) ==
    IF s # <<>> /\ Head(s) \in chars THEN LStrip(Tail(s), chars) ELSE s

RECURSIVE RStrip(_, _)
RStrip(s, chars) ==
    IF s # <<>> /\ s[Len(s)] \in chars THEN RStrip(Take(s, Len(s) - 1), chars) ELSE s

StripChars(s, chars) == RStrip(LStrip(s, chars), chars)

\* str.strip()
strip(s) == StripChars(s, {"TAB", " ", "NBSP"})

(***************************************************************************)
(* html.unescape, on the named character references the modelled texts can *)
(* hold (no text holds a '#', so no numeric reference).                    *)
(***************************************************************************)
html5Names ==
    { <<"a", "m", "p", ";">>, <<"a", "m", "p">>,
      <<"l", "t", ";">>, <<"l", "t">>,
      <<"n", "b", "s", "p", ";">>, <<"n", "b", "s", "p">> }

html5(name) ==
    IF name \in {<<"a", "m", "p", ";">>, <<"a", "m", "p">>} THEN <<"&">>
    ELSE IF name \in {<<"l", "t", ";">>, <<"l", "t">>} THEN <<"<">>
    ELSE <<"NBSP">>

\* html._replace_charref for a named reference: the whole name, else its
\* longest proper prefix of two or more characters that is a name, else as is
ReplacePrefix(ref, hits) ==
    IF hits = {} THEN <<"&">> \o ref
    ELSE html5(Take(ref, MaxOf(hits))) \o Drop(ref, MaxOf(hits))

replace_charref(ref) ==
    IF ref \in html5Names THEN html5(ref)
    ELSE ReplacePrefix(ref, {x \in 2..(Len(ref) - 1) : Take(ref, x) \in html5Names})

RECURSIVE unescape(_)

\* the reference that starts at s[1] = '&' and is m characters long after it
UnescapeRef(s, m) == replace_charref(SubSeq(s, 2, m + 1)) \o unescape(Drop(s, m + 1))

\* s[1] is '&' and n reference characters follow it: the ';' after them is
\* part of the reference
UnescapeAmp(s, n) ==
    IF n = 0 THEN <<"&">> \o unescape(Tail(s))
    ELSE UnescapeRef(s, IF Len(s) >= n + 2 /\ s[n + 2] = ";" THEN n + 1 ELSE n)

unescape(s) ==
    IF s = <<>> THEN <<>>
    ELSE IF Head(s) # "&" THEN <<Head(s)>> \o unescape(Tail(s))
    ELSE UnescapeAmp(s, SpanLen(Tail(s), "refchar"))

\* re.sub(r"\s+", " ", s)
RECURSIVE collapse_whitespace(_)
collapse_whitespace(s) ==
    IF s = <<>> THEN <<>>
    ELSE IF IsSpace(Head(s))
         THEN <<" ">> \o collapse_whitespace(Drop(s, SpanLen(s, "space")))
         ELSE <<Head(s)>> \o collapse_whitespace(Tail(s))

_normalize_text(value) == strip(collapse_whitespace(unescape(value)))

(***************************************************************************)
(* Code classifier.                                                        *)
(***************************************************************************)
AllInClass(s, class) == SpanLen(s, class) = Len(s)

\* re.fullmatch(r"[A-Z]{1,2}\d{2}(?:\.[0-9A-Z]{1,4})?", value)
_is_code(value) ==
    \E u \in 1..2 :
        /\ Len(value) >= u + 2
        /\ AllInClass(Take(value, u), "upper")
        /\ AllInClass(SubSeq(value, u + 1, u + 2), "digit")
        /\ \/ Len(value) = u + 2
           \/ /\ Len(value) - (u + 3) \in 1..4
              /\ value[u + 3] = "."
              /\ AllInClass(Drop(value, u + 3), "alnum")

\* int(number) of a run of decimal digits
RECURSIVE int(_)
int(number) ==
    IF number = <<>> THEN 0
    ELSE 10 * int(Take(number, Len(number) - 1))
         + (Ord(number[Len(number)]) - Ord("0"))

\* whether ([A-Z]+)(\d+)(?:\.([0-9A-Z]+))? matches the whole of code, whose
\* leading letters are p and whose digits after them are d
KeyPatternMatches(code, p, d) ==
    /\ p >= 1
    /\ d >= 1
    /\ \/ Len(code) = p + d
       \/ /\ Len(code) >= p + d + 2
          /\ code[p + d + 1] = "."
          /\ AllInClass(Drop(code, p + d + 1), "alnum")

\* the key of a code that does not match: (code, 0, "")
FallbackKey(code) == <<code, 0, <<>>>>

SortKeyFrom(code, p, d) ==
    IF KeyPatternMatches(code, p, d)
    THEN <<Take(code, p), int(SubSeq(code, p + 1, p + d)), Drop(code, p + d + 1)>>
    ELSE FallbackKey(code)

SortKeyAfter(code, p) == SortKeyFrom(code, p, SpanLen(Drop(code, p), "digit"))

_code_sort_key(code) == SortKeyAfter(code, SpanLen(code, "upper"))

\* whether re.fullmatch(r"([A-Z]+)(\d+)(?:\.([0-9A-Z]+))?", code) matches
SortKeyParses(code) ==
    KeyPatternMatches(code, SpanLen(code, "upper"),
                      SpanLen(Drop(code, SpanLen(code, "upper")), "digit"))

\* tuple < tuple on (str, int, str)
KeyLess(a, b) ==
    \/ StrLess(a[1], b[1])
    \/ /\ a[1] = b[1]
       /\ \/ a[2] < b[2]
          \/ a[2] = b[2] /\ StrLess(a[3], b[3])

KeyLeq(a, b) == a = b \/ KeyLess(a, b)

\* the place of one more element in a list sorted by key: after every element
\* whose key is not greater (sorted() is stable)
RECURSIVE InsertByKey(_, _)
InsertByKey(sortedSeq, e) ==
    IF sortedSeq = <<>> THEN <<e>>
    ELSE IF KeyLess(_code_sort_key(e.code), _code_sort_key(Head(sortedSeq).code))
         THEN <<e>> \o sortedSeq
         ELSE <<Head(sortedSeq)>> \o InsertByKey(Tail(sortedSeq), e)

\* a scrape() that returns the merged entries as they are
unsorted(seq) == seq

\* sorted(unique_entries, key=lambda entry: _code_sort_key(entry.code))
RECURSIVE sorted(_)
sorted(seq) ==
    IF seq = <<>> THEN <<>>
    ELSE InsertByKey(sorted(Take(seq, Len(seq) - 1)), seq[Len(seq)])

(***************************************************************************)
(* Label stripping and entry normalisation.                                *)
(***************************************************************************)
RECURSIVE LowerStr(_)
LowerStr(s) == IF s = <<>> THEN <<>> ELSE <<Lower(Head(s))>> \o LowerStr(Tail(s))

\* the alternatives of _LABEL_PATTERN, in the order the pattern tries them
Labels ==
    << <<"s", "r", "p", "s", "k", "i">>,
       <<"s", "e", "r", "b", "i", "a", "n">>,
       <<"n", "a", "z", "i", "v">>,
       <<"o", "p", "i", "s">>,
       <<"l", "a", "t", "i", "n", "s", "k", "i">>,
       <<"l", "a", "t", "i", "n", " ", "n", "a", "m", "e">>,
       <<"l", "a", "t", "i", "n">>,
       <<"scaron", "i", "f", "r", "a">>,
       <<"s", "i", "f", "r", "a">>,
       <<"o", "z", "n", "a", "k", "a">>,
       <<"c", "o", "d", "e">> >>

\* case-insensitive prefix
MatchesLabel(value, label) ==
    Len(label) <= Len(value) /\ LowerStr(Take(value, Len(label))) = label

\* the length of what \s*[:\-–]?\s* matches at the start of rest, which
\* starts with w1 white space characters
LabelSepLen(rest, w1) ==
    IF Len(rest) > w1 /\ rest[w1 + 1] \in {":", "-", "NDASH"}
    THEN w1 + 1 + SpanLen(Drop(rest, w1 + 1), "space")
    ELSE w1

\* the match of the label Labels[i] and what follows it (i = 0: no label)
LabelEnd(value, i) ==
    IF i = 0 THEN 0
    ELSE Len(Labels[i])
         + LabelSepLen(Drop(value, Len(Labels[i])),
                       SpanLen(Drop(value, Len(Labels[i])), "space"))

\* the length of what _LABEL_PATTERN matches at the start of value (0: no match)
LabelMatchLen(value) ==
    LabelEnd(value, MinOrZero({i \in DOMAIN Labels : MatchesLabel(value, Labels[i])}))

_strip_labels(value) ==
    IF value = <<>> THEN <<>>
    ELSE StripChars(Drop(value, LabelMatchLen(value)), {" ", "-", ":", "NDASH"})

\* the length of a match of \s+-\s+|\s+–\s+ at the start of s (0: no match)
DashSepAfter(s, w1, w2) ==
    IF w1 >= 1 /\ Len(s) > w1 /\ s[w1 + 1] \in {"-", "NDASH"} /\ w2 >= 1
    THEN w1 + 1 + w2 ELSE 0

DashSepFrom(s, w1) == DashSepAfter(s, w1, SpanLen(Drop(s, w1 + 1), "space"))

DashSepLen(s) == DashSepFrom(s, SpanLen(s, "space"))

RECURSIVE SplitDash(_)

\* the split at the first separator, which starts at s[i] (i = 0: none)
SplitAt(s, i) ==
    IF i = 0 THEN <<s>>
    ELSE <<Take(s, i - 1)>> \o SplitDash(Drop(s, i - 1 + DashSepLen(Drop(s, i - 1))))

\* re.split(r"\s+-\s+|\s+–\s+", s)
SplitDash(s) == SplitAt(s, MinOrZero({i \in 1..Len(s) : DashSepLen(Drop(s, i - 1)) > 0}))

NonEmpty(t) == IF t = <<>> THEN <<>> ELSE <<t>>

\* [segment.strip() for segment in parts if segment.strip()]
RECURSIVE StrippedNonEmpty(_)
StrippedNonEmpty(parts) ==
    IF parts = <<>> THEN <<>>
    ELSE NonEmpty(strip(Head(parts))) \o StrippedNonEmpty(Tail(parts))

MKBEntry(code, serbian, latin) == [code |-> code, serbian |-> serbian, latin |-> latin]

\* a _normalise_entry that keeps an entry without primary text
DiscardNever(serbian) == FALSE

\* "if not serbian: return None": whether the entry is discarded
DiscardEntry(serbian) == serbian = <<>>

\* "if serbian and _is_code(serbian): serbian = ''"
BlankIfCode(text) == IF text # <<>> /\ _is_code(text) THEN <<>> ELSE text

\* Optional[MKBEntry]: << >> is None, <<e>> is the entry e
EntryOrNone(code, serbian, latin) ==
    IF DiscardEntry(serbian) THEN <<>> ELSE <<MKBEntry(code, serbian, latin)>>

\* a repair that takes the second segment as the alternate text
RepairFromSecond(code, serbian, latin, segments) ==
    IF Len(segments) > 1
    THEN EntryOrNone(code, segments[1], segments[2])
    ELSE EntryOrNone(code, serbian, latin)

\* "if len(segments) > 1: serbian, latin = segments[0], segments[-1]"
RepairFrom(code, serbian, latin, segments) ==
    IF Len(segments) > 1
    THEN EntryOrNone(code, segments[1], segments[Len(segments)])
    ELSE EntryOrNone(code, serbian, latin)

\* the entry from its stripped, normalised and code-blanked texts
Repaired(code, serbian, latin) ==
    IF serbian = <<>> /\ latin # <<>>
    THEN RepairFrom(code, serbian, latin, StrippedNonEmpty(SplitDash(latin)))
    ELSE EntryOrNone(code, serbian, latin)

_normalise_entry(entry) ==
    Repaired(entry.code,
             BlankIfCode(_strip_labels(_normalize_text(entry.serbian))),
             BlankIfCode(_strip_labels(_normalize_text(entry.latin))))

\* _parse_entries after the six strategies: parsed is their concatenated output
RECURSIVE _parse_entries(_)
_parse_entries(parsed) ==
    IF parsed = <<>> THEN <<>>
    ELSE _normalise_entry(Head(parsed)) \o _parse_entries(Tail(parsed))

(***************************************************************************)
(* Duplicate merge.                                                        *)
(***************************************************************************)
\* Python's "a or b" on two strings
StrOr(a, b) == IF a # <<>> THEN a ELSE b

\* one iteration of the loop of _deduplicate; seen is the insertion-ordered dict
\* "merged = MKBEntry(...)"
Merged(entry, existing) ==
    MKBEntry(entry.code, StrOr(entry.serbian, existing.serbian),
             StrOr(entry.latin, existing.latin))

\* the entry of the dict at position i is replaced (i = 0: a new code)
MergeAt(seen, entry, i) ==
    IF i = 0 THEN Append(seen, entry)
    ELSE [seen EXCEPT ![i] = Merged(entry, seen[i])]

MergeInto(seen, entry) ==
    MergeAt(seen, entry, MinOrZero({j \in DOMAIN seen : seen[j].code = entry.code}))

RECURSIVE DedupFrom(_, _)
DedupFrom(seen, rest) ==
    IF rest = <<>> THEN seen ELSE DedupFrom(MergeInto(seen, Head(rest)), Tail(rest))

_deduplicate(es) == DedupFrom(<<>>, es)

(***************************************************************************)
(* Catalogue URLs.  A URL is <<scheme, netloc, path, query>>, the parts of *)
(* the string scheme://netloc/path?query.                                  *)
(***************************************************************************)
base_netloc == "www.stetoskop.info"

INDEX_PATH == <<"/", "m", "k", "b">>

catalog_path_prefix == <<"/", "c">>

index_url == <<"https", base_netloc, index_path, <<>>>>

Min(a, b) == IF a <= b THEN a ELSE b

\* the length of a match of _CODE_IN_PATH_PATTERN at the start of s (0: no match)
\* [A-Z]{u}\d{2} at the start of s
CodeHeadOk(s, u) ==
    /\ Len(s) >= u + 2
    /\ AllInClass(Take(s, u), "upper")
    /\ AllInClass(SubSeq(s, u + 1, u + 2), "digit")

\* the match with u letters and a suffix of k characters ([0-9A-Z]{1,4}, greedy)
CodeMatchWith(u, k) == IF k >= 1 THEN u + 3 + Min(4, k) ELSE u + 2

CodeMatchFrom(s, u) ==
    IF u = 0 THEN 0
    ELSE CodeMatchWith(u, IF Len(s) >= u + 4 /\ s[u + 3] = "."
                          THEN SpanLen(Drop(s, u + 3), "alnum") ELSE 0)

\* the length of a match of _CODE_IN_PATH_PATTERN at the start of s (0: no match)
CodeMatchLen(s) ==
    CodeMatchFrom(s, IF CodeHeadOk(s, 2) THEN 2 ELSE IF CodeHeadOk(s, 1) THEN 1 ELSE 0)

RECURSIVE findall_codes(_)

FindFrom(s, n) ==
    IF n > 0 THEN <<Take(s, n)>> \o findall_codes(Drop(s, n))
    ELSE findall_codes(Tail(s))

\* _CODE_IN_PATH_PATTERN.findall(s)
findall_codes(s) == IF s = <<>> THEN <<>> ELSE FindFrom(s, CodeMatchLen(s))

\* Optional[tuple[str, str]]: << >> is None
RangeOf(codes) == IF codes = <<>> THEN <<>> ELSE <<codes[1], codes[Len(codes)]>>

_extract_code_range(path, prefix) ==
    IF ~StartsWith(path, prefix) THEN <<>>
    ELSE RangeOf(findall_codes(StripChars(Drop(path, Len(prefix)), {"/"})))

\* "if start_key > end_key: swap"
Orient(start_key, end_key) ==
    IF KeyLess(end_key, start_key) THEN <<end_key, start_key>>
    ELSE <<start_key, end_key>>

\* the (start_key, end_key) of a code range
OrientedKeys(code_range) ==
    Orient(_code_sort_key(code_range[1]), _code_sort_key(code_range[2]))

\* existing_start_key <= start_key and end_key <= existing_end_key
RangeCovers(existing, keys) == KeyLeq(existing[1], keys[1]) /\ KeyLeq(keys[2], existing[2])

\* a loop that looks at the range accepted last only
ShouldSkipLast(covered_ranges, keys) ==
    covered_ranges # <<>> /\ RangeCovers(covered_ranges[Len(covered_ranges)], keys)

\* a loop that never sets should_skip
ShouldSkipNever(covered_ranges, keys) == FALSE

\* whether the loop over covered_ranges sets should_skip
ShouldSkip(covered_ranges, keys) ==
    \E i \in DOMAIN covered_ranges : RangeCovers(covered_ranges[i], keys)

\* a candidate with a code range whose oriented keys are keys
FilterRanged(st, url, keys) ==
    IF ShouldSkip(st.covered_ranges, keys) THEN st
    ELSE [catalog_urls   |-> Append(st.catalog_urls, url),
          covered_ranges |-> Append(st.covered_ranges, keys)]

FilterWith(st, url, code_range) ==
    IF code_range = <<>>
    THEN [st EXCEPT !.catalog_urls = Append(@, url)]
    ELSE FilterRanged(st, url, OrientedKeys(code_range))

\* one iteration of the loop of _filter_catalog_urls
FilterStep(st, cand) ==
    FilterWith(st, cand.url, _extract_code_range(cand.path, catalog_path_prefix))

RECURSIVE FilterFrom(_, _)
FilterFrom(st, candidates) ==
    IF candidates = <<>> THEN st
    ELSE FilterFrom(FilterStep(st, Head(candidates)), Tail(candidates))

_filter_catalog_urls(candidates) ==
    FilterFrom([catalog_urls |-> <<>>, covered_ranges |-> <<>>], candidates).catalog_urls

\* the anchor whose path, without its trailing slashes, is path
CollectWith(st, anchor, path) ==
    IF \/ anchor.skip
       \/ anchor.scheme \notin {"http", "https"}
       \/ anchor.netloc # base_netloc
       \/ path = <<>>
       \/ ~StartsWith(path, catalog_path_prefix)
       \/ <<anchor.scheme, anchor.netloc, path, anchor.query>> \in st.seen
    THEN st
    ELSE [seen       |-> st.seen \cup {<<anchor.scheme, anchor.netloc, path, anchor.query>>},
          candidates |-> Append(st.candidates,
                                [url  |-> <<anchor.scheme, anchor.netloc, path, anchor.query>>,
                                 path |-> path])]

\* one iteration of the loop of _collect_catalog_urls.  An anchor is the
\* urlparse() of its resolved href; skip marks an href that is empty or
\* starts with '#'
CollectStep(st, anchor) == CollectWith(st, anchor, RStrip(anchor.path, {"/"}))

RECURSIVE CollectFrom(_, _)
CollectFrom(st, anchors) ==
    IF anchors = <<>> THEN st
    ELSE CollectFrom(CollectStep(st, Head(anchors)), Tail(anchors))

_collect_catalog_urls(anchors) ==
    _filter_catalog_urls(CollectFrom([seen |-> {}, candidates |-> <<>>], anchors).candidates)

(***************************************************************************)
(* The six extraction strategies, each over one element of the page.  An   *)
(* element is given by the texts its queries return; a sibling node is a   *)
(* record [kind, name, latin, lat, text]: a string or a tag, the tag's     *)
(* name, whether "latin" and whether "lat" occur in its classes, and the   *)
(* string itself or the tag's get_text(" ", strip=True).                   *)
(***************************************************************************)
\* _strip_labels(_normalize_text(text))
CleanText(text) == _strip_labels(_normalize_text(text))

\* sub in s
Contains(s, sub) ==
    \E i \in 0..(Len(s) - Len(sub)) : SubSeq(s, i + 1, i + Len(sub)) = sub

\* the row's entry from its cleaned cells
TableEntry(cells) ==
    IF \/ cells = <<>>
       \/ \E i \in DOMAIN cells :
              Contains(LowerStr(cells[i]), <<"scaron", "i", "f", "r", "a">>)
       \/ Len(cells) < 2
       \/ ~_is_code(cells[1])
    THEN <<>>
    ELSE <<MKBEntry(cells[1], _strip_labels(cells[2]),
                    IF Len(cells) >= 3 THEN _strip_labels(cells[3]) ELSE <<>>)>>

\* one <tr> whose <td>/<th> cells have the texts of row
_parse_from_tables(row) == TableEntry([i \in DOMAIN row |-> CleanText(row[i])])

\* the cleaned text of an element that may be missing (<< >>: no element)
ElementText(element) == IF element = <<>> THEN <<>> ELSE CleanText(element[1])

StructuredEntry(code_text, block) ==
    IF ~_is_code(code_text) THEN <<>>
    ELSE <<MKBEntry(code_text, ElementText(block.serbian), ElementText(block.latin))>>

\* one container, with the elements _find_first_matching finds in it
_parse_from_structured_blocks(block) == StructuredEntry(ElementText(block.code), block)

\* the first sibling whose cleaned text is not empty
RECURSIVE _extract_latin_from_siblings(_)
_extract_latin_from_siblings(siblings) ==
    IF siblings = <<>> THEN <<>>
    ELSE IF Head(siblings).name # "br" /\ CleanText(Head(siblings).text) # <<>>
         THEN CleanText(Head(siblings).text)
         ELSE _extract_latin_from_siblings(Tail(siblings))

\* "if serbian_text == code_text: serbian_text = ''"
ListGroupEntry(code_text, serbian_text, latin_text) ==
    IF ~_is_code(code_text) THEN <<>>
    ELSE <<MKBEntry(code_text,
                    IF serbian_text = code_text THEN <<>> ELSE serbian_text,
                    latin_text)>>

\* one li.list-group-item: the code element's text (<< >>: a column is
\* missing), the description's <strong> (<< >>: none) with its siblings, and
\* the description column's text
_parse_from_list_groups(item) ==
    IF item.code = <<>> THEN <<>>
    ELSE IF item.strong # <<>>
         THEN ListGroupEntry(CleanText(item.code[1]), CleanText(item.strong[1]),
                             _extract_latin_from_siblings(item.siblings))
         ELSE ListGroupEntry(CleanText(item.code[1]), CleanText(item.description), <<>>)

\* any(token in value.lower() for token in ("latinski", "latin"))
_contains_latin_label(value) == Contains(LowerStr(value), <<"l", "a", "t", "i", "n">>)

\* sibling.name.startswith("h")
StartsWithH(name) ==
    name \in {"h1", "h2", "h3", "h4", "h5", "h6", "hr", "head", "header", "hgroup", "html"}

RECURSIVE FollowingFrom(_, _)

\* one sibling, whose normalised text is text, then the siblings after it
FollowingNode(node, text, rest, index) ==
    IF node.kind = "tag" /\ (node.name = "br" \/ text = <<>>)
    THEN FollowingFrom(rest, index + 1)
    ELSE IF \/ node.kind = "tag" /\ (node.name \in {"em", "i"} \/ node.latin)
            \/ _contains_latin_label(text)
         THEN _strip_labels(text)
         ELSE IF node.kind = "tag" /\ StartsWithH(node.name)
              THEN <<>>
              ELSE FollowingFrom(rest, index + 1)

\* the loop of _extract_following_latin from the sibling of index index
FollowingFrom(siblings, index) ==
    IF siblings = <<>> \/ index > 10 THEN <<>>
    ELSE FollowingNode(Head(siblings), _normalize_text(Head(siblings).text),
                       Tail(siblings), index)

_extract_following_latin(siblings) == FollowingFrom(siblings, 0)

\* the code group of heading_pattern in text, whose greedy match at the start
\* has n characters of which base are letters and digits: the longest match
\* that leaves a character for the serbian group (0: no match)
HeadingCodeLen(text, n, base) ==
    IF n = 0 THEN 0
    ELSE IF n < Len(text) THEN n
    ELSE IF n > base + 2 THEN n - 1
    ELSE IF n > base THEN base
    ELSE 0

\* the serbian group of heading_pattern in rest, the text after the code,
\* which starts with w1 white space characters, then perhaps a separator and
\* w2 white space characters
HeadingAfter(rest, w1, w2) ==
    IF Len(rest) > w1 /\ rest[w1 + 1] \in {"-", "NDASH", "MDASH", ":"}
    THEN IF w1 + 1 + w2 < Len(rest) THEN Drop(rest, w1 + 1 + w2)
         ELSE IF w2 >= 1 THEN <<rest[Len(rest)]>>
         ELSE Drop(rest, w1)
    ELSE IF w1 < Len(rest) THEN Drop(rest, w1)
         ELSE <<rest[Len(rest)]>>

HeadingSerbian(rest, w1) == HeadingAfter(rest, w1, SpanLen(Drop(rest, w1 + 1), "space"))

HeadingEntry(text, n, siblings) ==
    IF n = 0 THEN <<>>
    ELSE <<MKBEntry(Take(text, n),
                    strip(HeadingSerbian(Drop(text, n), SpanLen(Drop(text, n), "space"))),
                    _extract_following_latin(siblings))>>

HeadingMatch(text, siblings) ==
    IF text = <<>> THEN <<>>
    ELSE HeadingEntry(text,
                      HeadingCodeLen(text, CodeMatchLen(text),
                                     IF CodeHeadOk(text, 2) THEN 4 ELSE 3),
                      siblings)

\* one <h1>..<h6> with its get_text and the siblings after it
_parse_from_heading_blocks(heading) ==
    HeadingMatch(_normalize_text(heading.text), heading.siblings)

\* " ".join(parts)
RECURSIVE Join(_)
Join(parts) ==
    IF parts = <<>> THEN <<>>
    ELSE IF Len(parts) = 1 THEN parts[1]
    ELSE parts[1] \o <<" ">> \o Join(Tail(parts))

RECURSIVE ParagraphFrom(_, _)

\* one sibling of <strong>, whose cleaned text is text: <<serbian_parts, latin_text>>
ParagraphNode(node, text, rest, serbian_parts) ==
    IF (node.kind = "tag" /\ node.name = "br") \/ text = <<>>
    THEN ParagraphFrom(rest, serbian_parts)
    ELSE IF node.kind = "tag" /\ (node.name \in {"em", "i"} \/ node.latin \/ node.lat)
         THEN <<serbian_parts, text>>
         ELSE ParagraphFrom(rest, Append(serbian_parts, text))

ParagraphFrom(siblings, serbian_parts) ==
    IF siblings = <<>> THEN <<serbian_parts, <<>>>>
    ELSE ParagraphNode(Head(siblings), CleanText(Head(siblings).text),
                       Tail(siblings), serbian_parts)

ParagraphEntry(code_text, found) ==
    IF ~_is_code(code_text) THEN <<>>
    ELSE <<MKBEntry(code_text, _normalize_text(Join(found[1])), found[2])>>

\* one <p>, <li> or <div>: its first <strong> (<< >>: none) and the siblings of it
_parse_from_paragraph_blocks(paragraph) ==
    IF paragraph.strong = <<>> THEN <<>>
    ELSE ParagraphEntry(CleanText(paragraph.strong[1]),
                        ParagraphFrom(paragraph.siblings, <<>>))

\* the length of a match of \s{2,}\|\s{2,}|\s{2,}|\s+-\s+|\s+–\s+ at the start
\* of s, which starts with w1 white space characters, then perhaps a pipe
\* and w2 white space characters (0: no match)
TextSepWith(s, w1, w2) ==
    IF w1 >= 2 /\ Len(s) > w1 /\ s[w1 + 1] = "|" /\ w2 >= 2 THEN w1 + 1 + w2
    ELSE IF w1 >= 2 THEN w1
    ELSE DashSepLen(s)

TextSepFrom(s, w1) == TextSepWith(s, w1, SpanLen(Drop(s, w1 + 1), "space"))

TextSepLen(s) == TextSepFrom(s, SpanLen(s, "space"))

RECURSIVE SplitText(_)

\* the split at the first separator, which starts at s[i] (i = 0: none)
SplitTextAt(s, i) ==
    IF i = 0 THEN <<s>>
    ELSE <<Take(s, i - 1)>> \o SplitText(Drop(s, i - 1 + TextSepLen(Drop(s, i - 1))))

\* re.split(r"\s{2,}\|\s{2,}|\s{2,}|\s+-\s+|\s+–\s+", s)
SplitText(s) == SplitTextAt(s, MinOrZero({i \in 1..Len(s) : TextSepLen(Drop(s, i - 1)) > 0}))

\* the "(" of a match of \(([^()]+)\)$ in s, given the last parenthesis
\* before the last character of s, at s[j] (0: no match)
ParenAt(s, j) == IF j > 0 /\ s[j] = "(" /\ j < Len(s) - 1 THEN j ELSE 0

ParenStart(s) ==
    IF s = <<>> \/ s[Len(s)] # ")" THEN 0
    ELSE ParenAt(s, MaxOf({0} \cup {i \in 1..(Len(s) - 1) : s[i] \in {"(", ")"}}))

\* the entry of a line with a single part: a trailing remark in parentheses
\* is the latin text
ParenEntry(code, serbian, j) ==
    IF j = 0 THEN MKBEntry(code, serbian, <<>>)
    ELSE MKBEntry(code, strip(Take(serbian, j - 1)),
                  strip(SubSeq(serbian, j + 1, Len(serbian) - 1)))

SinglePartEntry(code, serbian) == ParenEntry(code, serbian, ParenStart(serbian))

TextEntry(code, rest, parts) ==
    IF Len(parts) > 1 THEN MKBEntry(code, parts[1], parts[2])
    ELSE IF parts # <<>> THEN SinglePartEntry(code, parts[1])
    ELSE SinglePartEntry(code, strip(rest))

TextRest(code, rest) == TextEntry(code, rest, StrippedNonEmpty(SplitText(rest)))

\* the rest group of the pattern: what follows the code of n characters and
\* the w white space characters after it
TextLineMatch(line, n, w) ==
    IF n = 0 \/ w = 0 \/ Len(line) < n + 2 THEN <<>>
    ELSE IF n + w < Len(line)
         THEN <<TextRest(Take(line, n), _strip_labels(Drop(line, n + w)))>>
         ELSE <<TextRest(Take(line, n), _strip_labels(<<line[Len(line)]>>))>>

TextLine(line, n) == TextLineMatch(line, n, SpanLen(Drop(line, n), "space"))

\* one line of soup.get_text("\n", strip=True)
_parse_from_text_blocks(line) == TextLine(line, CodeMatchLen(line))

(***************************************************************************)
(* Bounds, and the inputs the site can serve.                              *)
(***************************************************************************)
MaxLinks == 3

MaxCandidates == 3

MaxDup == 3

MaxPieces == 3

MaxCodeLen == 3

MaxCells == 3

MaxSiblings == 2

RECURSIVE Concat(_)
Concat(parts) == IF parts = <<>> THEN <<>> ELSE Head(parts) \o Concat(Tail(parts))

\* the sequences of at most n elements of S
SeqsUpTo(S, n) == UNION {[1..k -> S] : k \in 0..n}

Range(f) == {f[i] : i \in DOMAIN f}

A00 == <<"A", "0", "0">>

A00_0 == <<"A", "0", "0", ".", "0">>

A01 == <<"A", "0", "1">>

A04 == <<"A", "0", "4">>

A09 == <<"A", "0", "9">>

B00 == <<"B", "0", "0">>

AB00 == <<"A", "B", "0", "0">>

\* what the six strategies extract from a page, concatenated (each strategy
\* keeps a candidate only if its code is a valid code): entries that
\* survive normalisation (out of code order, with a repair from the latin
\* text), duplicates of one code, entries that are all dropped
RawPages ==
    { <<>>,
      << MKBEntry(B00, <<"x">>, <<>>),
         MKBEntry(A00, <<>>, <<"x", " ", "-", " ", "y">>) >>,
      << MKBEntry(A00, <<"y">>, <<>>),
         MKBEntry(A00, <<"z">>, <<"o", "p", "i", "s", ":", " ", "z">>) >>,
      << MKBEntry(A01, A00, <<>>),
         MKBEntry(A01, <<"o", "p", "i", "s", ":">>, <<"x">>) >>,
      << MKBEntry(A00_0, <<"N", "a", "z", "i", "v", ":", " ", "x">>, <<>>),
         MKBEntry(A01, <<>>, <<>>) >>,
      << MKBEntry(AB00, <<"x">>, <<"&", "a", "m", "p", ";">>),
         MKBEntry(A00, <<>>, <<"x", " ", "NDASH", " ", "y", " ", "-", " ", "z">>) >> }

Anchor(skip, scheme, netloc, path, query) ==
    [skip |-> skip, scheme |-> scheme, netloc |-> netloc, path |-> path, query |-> query]

CatalogPath(rest) == catalog_path_prefix \o <<"/">> \o rest

\* the links of an index page: catalogue pages with and without a code range,
\* one of them twice (with a trailing slash), and links that are not followed
Anchors ==
    { Anchor(FALSE, "https", base_netloc, CatalogPath(A00 \o <<"-">> \o A09), <<>>),
      Anchor(FALSE, "https", base_netloc, CatalogPath(A00 \o <<"-">> \o A04), <<>>),
      Anchor(FALSE, "https", base_netloc, CatalogPath(A00 \o <<"-">> \o A09 \o <<"/">>), <<>>),
      Anchor(FALSE, "https", base_netloc, CatalogPath(<<"x">>), <<>>),
      Anchor(FALSE, "https", base_netloc, CatalogPath(<<"x">>), <<"q">>),
      Anchor(FALSE, "https", "other.example", CatalogPath(B00), <<>>),
      Anchor(FALSE, "https", base_netloc, <<"/", "a">>, <<>>),
      Anchor(FALSE, "mailto", "", <<"a">>, <<>>),
      Anchor(TRUE, "https", base_netloc, <<"/">>, <<>>) }

\* what session.get / raise_for_status raise
FetchErrors == {"HTTPError", "ConnectionError"}

\* the delay argument of the constructor
Delays == {-1, 0, 1}

Max(a, b) == IF a >= b THEN a ELSE b

NoUrl == <<>>

\* a call of _fetch and how it ended: "ok", or the exception it raised
FetchEvent(url, outcome) == [kind |-> "fetch", url |-> url, outcome |-> outcome]

\* a call of time.sleep(self.delay)
SleepEvent == [kind |-> "sleep", url |-> NoUrl, outcome |-> "ok"]

(***************************************************************************)
(* MKBScraper.scrape: one step per page fetch.                             *)
(***************************************************************************)
\* a loop that does not test the page's entries
EmptyPageNever(es) == FALSE

\* "if not page_entries": the page yielded no entry
EmptyPage(es) == es = <<>>

\* "if self.delay and idx < len(catalog_pages)"
ShouldSleep(d, i, n) == d # 0 /\ i < n

\* what the loop body appends to the log after a page at position i
SleepAfterPage(d, i, n) == IF ShouldSleep(d, i, n) THEN <<SleepEvent>> ELSE <<>>

\* a scrape() that wraps what the fetch raised
PropagateWrapped(exc, url) == <<"RuntimeError", url>>

\* what a failed fetch raises to the caller of scrape()
Propagate(exc, url) == <<exc, url>>

Init ==
    /\ pc = "start"
    /\ index_path = INDEX_PATH
    /\ delay \in {Max(0, d) : d \in Delays}
    /\ catalog_pages = <<>>
    /\ idx = 0
    /\ entries = <<>>
    /\ page_entries = <<>>
    /\ dropped = 0
    /\ log = <<>>
    /\ result = <<>>
    /\ error = <<>>
    /\ arg = <<>>
    /\ ret = <<>>

\* self._fetch(self.index_url) raises
FetchIndexFail ==
    /\ pc = "start"
    /\ \E exc \in FetchErrors :
        /\ log' = Append(log, FetchEvent(index_url, exc))
        /\ error' = Propagate(exc, index_url)
        /\ pc' = "raised"
    /\ UNCHANGED <<index_path, delay, catalog_pages, idx, entries, page_entries, dropped,
                   result, arg, ret>>

\* scrape() from the parsed index page up to the loop: index_entries are
\* the entries of the index page, of n candidates
IndexStep(index_entries, n, anchors) ==
    /\ log' = Append(log, FetchEvent(index_url, "ok"))
    /\ page_entries' = index_entries
    /\ dropped' = n - Len(index_entries)
    /\ entries' = entries \o index_entries
    /\ catalog_pages' = _collect_catalog_urls(anchors)
    /\ idx' = 1
    /\ pc' = "pages"

\* the index page is fetched, parsed, and its links collected and filtered
FetchIndex ==
    /\ pc = "start"
    /\ \E parsed \in RawPages, anchors \in SeqsUpTo(Anchors, MaxLinks) :
        IndexStep(_parse_entries(parsed), Len(parsed), anchors)
    /\ UNCHANGED <<index_path, delay, result, error, arg, ret>>

\* self._fetch(page_url) raises
FetchPageFail ==
    /\ pc = "pages"
    /\ idx <= Len(catalog_pages)
    /\ \E exc \in FetchErrors :
        /\ log' = Append(log, FetchEvent(catalog_pages[idx], exc))
        /\ error' = Propagate(exc, catalog_pages[idx])
        /\ pc' = "raised"
    /\ UNCHANGED <<index_path, delay, catalog_pages, idx, entries, page_entries, dropped,
                   result, arg, ret>>

\* the loop body after the fetch: es are the entries of the page, of n
\* candidates
PageStep(es, n) ==
    /\ page_entries' = es
    /\ dropped' = n - Len(es)
    /\ IF EmptyPage(es)
       THEN /\ log' = Append(log, FetchEvent(catalog_pages[idx], "ok"))
            /\ error' = <<"RuntimeError", catalog_pages[idx]>>
            /\ pc' = "raised"
            /\ UNCHANGED <<entries, idx>>
       ELSE /\ log' = Append(log, FetchEvent(catalog_pages[idx], "ok"))
                      \o SleepAfterPage(delay, idx, Len(catalog_pages))
            /\ entries' = entries \o es
            /\ idx' = idx + 1
            /\ UNCHANGED <<pc, error>>

\* one iteration of the loop over catalog_pages
FetchPage ==
    /\ pc = "pages"
    /\ idx <= Len(catalog_pages)
    /\ \E parsed \in RawPages : PageStep(_parse_entries(parsed), Len(parsed))
    /\ UNCHANGED <<index_path, delay, catalog_pages, result, arg, ret>>

\* after the loop: deduplicate, sort, return
Return ==
    /\ pc = "pages"
    /\ idx > Len(catalog_pages)
    /\ result' = sorted(_deduplicate(entries))
    /\ pc' = "done"
    /\ UNCHANGED <<index_path, delay, catalog_pages, idx, entries, page_entries, dropped,
                   log, error, arg, ret>>

Next == FetchIndexFail \/ FetchIndex \/ FetchPageFail \/ FetchPage \/ Return

Spec == Init /\ [][Next]_vars

\* scrape() of a scraper constructed with an index path of its own, outside
\* or under the catalogue path prefix, given with or without its leading "/"
IndexPathArguments == { INDEX_PATH, <<"c", "/", "x">> }

\* "index_path if index_path.startswith('/') else f'/{index_path}'"
WithLeadingSlash(path) == IF StartsWith(path, <<"/">>) THEN path ELSE <<"/">> \o path

ConfigInit ==
    /\ pc = "start"
    /\ index_path \in {WithLeadingSlash(path) : path \in IndexPathArguments}
    /\ delay = 0
    /\ catalog_pages = <<>>
    /\ idx = 0
    /\ entries = <<>>
    /\ page_entries = <<>>
    /\ dropped = 0
    /\ log = <<>>
    /\ result = <<>>
    /\ error = <<>>
    /\ arg = <<>>
    /\ ret = <<>>

SpecConfig == ConfigInit /\ [][Next]_vars

(***************************************************************************)
(* The pure functions, each applied once to an input drawn from a bounded  *)
(* set.                                                                    *)
(***************************************************************************)
PureInit(inputs) ==
    /\ pc = "input"
    /\ arg \in inputs
    /\ ret = <<>>
    /\ index_path = INDEX_PATH
    /\ delay = 0
    /\ catalog_pages = <<>>
    /\ idx = 0
    /\ entries = <<>>
    /\ page_entries = <<>>
    /\ dropped = 0
    /\ log = <<>>
    /\ result = <<>>
    /\ error = <<>>

\* a step that writes value to ret and moves to the stage after
Returns(value, after) ==
    /\ pc = "input"
    /\ ret' = value
    /\ pc' = after
    /\ UNCHANGED <<index_path, delay, catalog_pages, idx, entries, page_entries, dropped,
                   log, result, error, arg>>

\* texts: concatenations of at most MaxPieces pieces
TextPieces ==
    { <<"&">>, <<"a", "m", "p", ";">>, <<"l", "t", ";">>, <<"n", "b", "s", "p", ";">>,
      <<" ">>, <<"x">> }

Texts == {Concat(ps) : ps \in SeqsUpTo(TextPieces, MaxPieces)}

NormalizeText == Returns(_normalize_text(arg), "normalized")

TextInit == PureInit(Texts)

TextNext == NormalizeText

SpecText == TextInit /\ [][TextNext]_vars

\* pairs of strings that are codes, near-codes and other text
CodeChars == {"A", "B", "0", ".", "a"}

CodeTexts == SeqsUpTo(CodeChars, MaxCodeLen)

SortKeys == Returns(<<_code_sort_key(arg[1]), _code_sort_key(arg[2])>>, "keyed")

KeyInit == PureInit(CodeTexts \X CodeTexts)

KeyNext == SortKeys

SpecKey == KeyInit /\ [][KeyNext]_vars

\* entries of two codes whose text fields are blank or not
DedupTexts == {<<>>, <<"x">>, <<"y">>}

DedupEntries == {MKBEntry(c, t, u) : c \in {A00, B00}, t \in DedupTexts, u \in DedupTexts}

Deduplicate == Returns(_deduplicate(arg), "deduplicated")

DedupInit == PureInit(SeqsUpTo(DedupEntries, MaxDup))

DedupNext == Deduplicate

SpecDedup == DedupInit /\ [][DedupNext]_vars

\* candidates: catalogue paths with a range (one of them given end first),
\* with a single code and with no code, each at most once
FilterPaths ==
    { CatalogPath(A00 \o <<"-">> \o A09), CatalogPath(A00 \o <<"-">> \o A04),
      CatalogPath(A04 \o <<"-">> \o A09), CatalogPath(A09 \o <<"-">> \o A00),
      CatalogPath(A04), CatalogPath(B00),
      CatalogPath(<<"x">>), CatalogPath(<<"y">>) }

Candidate(path) == [url |-> <<"https", base_netloc, path, <<>>>>, path |-> path]

CandidateLists ==
    { [i \in DOMAIN ps |-> Candidate(ps[i])] :
        ps \in {q \in SeqsUpTo(FilterPaths, MaxCandidates) :
                    \A i, j \in DOMAIN q : i # j => q[i] # q[j]} }

FilterCatalogUrls == Returns(_filter_catalog_urls(arg), "filtered")

FilterInit == PureInit(CandidateLists)

FilterNext == FilterCatalogUrls

SpecFilter == FilterInit /\ [][FilterNext]_vars

\* texts that start with a label, with a word that only begins like a label,
\* with a separator character, or with neither
LabelPieces ==
    { <<"o", "p", "i", "s">>, <<"N", "a", "z", "i", "v">>, <<"l", "a", "t", "i", "n">>,
      <<" ", "n", "a", "m", "e">>, <<":">>, <<"-">>, <<" ">>, <<"x">> }

LabelTexts == {Concat(ps) : ps \in SeqsUpTo(LabelPieces, MaxPieces)}

StripLabels == Returns(_strip_labels(arg), "stripped")

LabelInit == PureInit(LabelTexts)

LabelNext == StripLabels

SpecLabel == LabelInit /\ [][LabelNext]_vars

\* entries as a strategy hands them over: the primary text blank, white
\* space, a code, a bare label or a text; the alternate text made of texts,
\* spaced and unspaced dashes, a code and a label
EntrySerbians == { <<>>, <<" ">>, <<"x">>, A00, <<"o", "p", "i", "s", ":">> }

EntryLatinPieces ==
    { <<"x">>, <<"y", " ", "NDASH", " ", "z">>, <<" ", "-", " ">>, <<" ">>, <<"-">>,
      A00, <<"o", "p", "i", "s", ":", " ">> }

EntryLatins == {Concat(ps) : ps \in SeqsUpTo(EntryLatinPieces, MaxPieces)}

RawEntries == {MKBEntry(c, t, u) : c \in {A00, B00}, t \in EntrySerbians, u \in EntryLatins}

NormaliseEntry == Returns(_normalise_entry(arg), "normalised")

EntryInit == PureInit(RawEntries)

EntryNext == NormaliseEntry

SpecEntry == EntryInit /\ [][EntryNext]_vars

\* elements of a page, one kind for each strategy.  The texts are what
\* get_text returns: plain, with a label, with a doubled label, with a run
\* of spaces, and with a label of the alternate text
Naziv_x == <<"N", "a", "z", "i", "v", ":", " ", "x">>

Latin_y == <<"L", "a", "t", "i", "n", ":", " ", "y">>

FieldTexts ==
    { <<>>, <<"x">>, Naziv_x, <<"o", "p", "i", "s", ":", " ">> \o Naziv_x,
      <<"x", " ", " ", "y">>, Latin_y }

CodeElements == { <<A00>>, <<<<"C", "o", "d", "e", ":", " ">> \o A00_0>>, <<<<"x">>>> }

Optional(S) == {<<>>} \cup {<<t>> : t \in S}

Node(kind, name, latin, text) ==
    [kind |-> kind, name |-> name, latin |-> latin, lat |-> latin, text |-> text]

Nodes ==
    { Node("str", "", FALSE, <<" ">> \o Latin_y), Node("tag", "em", FALSE, <<"y">>),
      Node("tag", "br", FALSE, <<>>), Node("tag", "span", TRUE, Naziv_x),
      Node("tag", "h2", FALSE, <<"x">>), Node("tag", "span", FALSE, <<"x">>) }

SiblingLists == SeqsUpTo(Nodes, MaxSiblings)

TableRows ==
    { [kind |-> "table", cells |-> row] :
        row \in SeqsUpTo({A00, <<"scaron", "i", "f", "r", "a">>} \cup FieldTexts, MaxCells) }

StructuredBlocks ==
    { [kind |-> "structured", code |-> c, serbian |-> t, latin |-> u] :
        c \in {<<>>} \cup CodeElements, t \in Optional(FieldTexts),
        u \in Optional({<<"y">>, Latin_y}) }

ListItems ==
    { [kind |-> "list", code |-> c, strong |-> t, siblings |-> ss, description |-> d] :
        c \in {<<>>} \cup CodeElements, t \in Optional({Naziv_x, A00}),
        ss \in SiblingLists, d \in {Naziv_x, A00} }

Headings ==
    { [kind |-> "heading", text |-> t, siblings |-> ss] :
        t \in { <<>>, <<"x">>, A00_0, A00 \o <<" ">> \o Naziv_x,
                A00 \o <<" ", "-", " ", "x">>, AB00 \o <<":", " ", "x", " ", " ", "y">> },
        ss \in SiblingLists }

Paragraphs ==
    { [kind |-> "paragraph", strong |-> c, siblings |-> ss] :
        c \in {<<>>} \cup CodeElements, ss \in SiblingLists }

TextLines ==
    { [kind |-> "text", line |-> t] :
        t \in { <<"x">>, A00, A00 \o <<" ">> \o Naziv_x,
                A00 \o <<" ", "x", " ", "-", " ">> \o Latin_y,
                A00_0 \o <<" ", "x", " ", " ", "|", " ", " ", "y">>,
                A00 \o <<" ", "x", " ", "(", "y", ")">>,
                AB00 \o <<" ", "x", " ", "y", " ", "NDASH", " ", "z", " ", "-", " ", "y">> } }

PageElements ==
    TableRows \cup StructuredBlocks \cup ListItems \cup Headings \cup Paragraphs
        \cup TextLines

ParseFromTables == arg.kind = "table" /\ Returns(_parse_from_tables(arg.cells), "parsed")

ParseFromStructuredBlocks ==
    arg.kind = "structured" /\ Returns(_parse_from_structured_blocks(arg), "parsed")

ParseFromListGroups == arg.kind = "list" /\ Returns(_parse_from_list_groups(arg), "parsed")

ParseFromHeadingBlocks ==
    arg.kind = "heading" /\ Returns(_parse_from_heading_blocks(arg), "parsed")

ParseFromParagraphBlocks ==
    arg.kind = "paragraph" /\ Returns(_parse_from_paragraph_blocks(arg), "parsed")

ParseFromTextBlocks == arg.kind = "text" /\ Returns(_parse_from_text_blocks(arg.line), "parsed")

StrategyInit == PureInit(PageElements)

StrategyNext ==
    \/ ParseFromTables
    \/ ParseFromStructuredBlocks
    \/ ParseFromListGroups
    \/ ParseFromHeadingBlocks
    \/ ParseFromParagraphBlocks
    \/ ParseFromTextBlocks

SpecStrategy == StrategyInit /\ [][StrategyNext]_vars

(***************************************************************************)
(* Properties.                                                             *)
(***************************************************************************)
IsFetch(e) == e.kind = "fetch"

\* scrape() raised what a fetch raised
FetchFailed == error # <<>> /\ error[1] \in FetchErrors

Codes(es) == {es[i].code : i \in DOMAIN es}

\* C1: a catalogue page that yields zero entries aborts the crawl with an error
\* at that page (no result, and nothing is fetched after it), a catalogue page
\* that yields entries does not; an index page that yields zero entries does
\* not abort, the crawl goes on to the catalogue pages.
C1_EmptyCataloguePageAborts ==
    [][ /\ (pc = "pages" /\ idx <= Len(catalog_pages) /\ ~FetchFailed')
            => IF page_entries' = <<>>
               THEN /\ pc' = "raised"
                    /\ error' = <<"RuntimeError", catalog_pages[idx]>>
                    /\ result' = <<>>
                    /\ log' = Append(log, FetchEvent(catalog_pages[idx], "ok"))
               ELSE pc' = "pages" /\ error' = <<>>
        /\ (pc = "start" /\ ~FetchFailed') => (pc' = "pages" /\ error' = <<>>)
        /\ pc # "raised"
      ]_vars

\* C1 witness: the index page yielded no entry, the crawl went on, and the
\* first catalogue page yielded none and aborted it.
C1_Witness ==
    /\ pc = "raised"
    /\ error[1] = "RuntimeError"
    /\ entries = <<>>
    /\ page_entries = <<>>
    /\ Len(SelectSeq(log, IsFetch)) = 2

\* the fields of the earliest occurrence of the code c in es whose field is
\* not blank (blank when every occurrence is blank)
FirstSerbian(es, c) ==
    IF \A i \in DOMAIN es : es[i].code = c => es[i].serbian = <<>> THEN <<>>
    ELSE es[MinOrZero({i \in DOMAIN es : es[i].code = c /\ es[i].serbian # <<>>})].serbian

FirstLatin(es, c) ==
    IF \A i \in DOMAIN es : es[i].code = c => es[i].latin = <<>> THEN <<>>
    ELSE es[MinOrZero({i \in DOMAIN es : es[i].code = c /\ es[i].latin # <<>>})].latin

\* the same for the latest occurrence
LastSerbian(es, c) ==
    IF \A i \in DOMAIN es : es[i].code = c => es[i].serbian = <<>> THEN <<>>
    ELSE es[MaxOf({i \in DOMAIN es : es[i].code = c /\ es[i].serbian # <<>>})].serbian

LastLatin(es, c) ==
    IF \A i \in DOMAIN es : es[i].code = c => es[i].latin = <<>> THEN <<>>
    ELSE es[MaxOf({i \in DOMAIN es : es[i].code = c /\ es[i].latin # <<>>})].latin

\* C2: after the merge, every code of the input has one entry, and each text
\* field of it is the field of the earliest occurrence of the code whose field
\* is not blank.
C2_FirstOccurrenceWins ==
    pc = "deduplicated" =>
        /\ Codes(ret) = Codes(arg)
        /\ \A i \in DOMAIN ret :
            /\ ret[i].serbian = FirstSerbian(arg, ret[i].code)
            /\ ret[i].latin = FirstLatin(arg, ret[i].code)

\* what the code does instead: the latest non-blank occurrence wins.
C2_LastOccurrenceWins ==
    pc = "deduplicated" =>
        /\ Codes(ret) = Codes(arg)
        /\ \A i \in DOMAIN ret :
            /\ ret[i].serbian = LastSerbian(arg, ret[i].code)
            /\ ret[i].latin = LastLatin(arg, ret[i].code)

HasRange(cand) == _extract_code_range(cand.path, catalog_path_prefix) # <<>>

\* the range of candidate a contains the range of candidate b, both oriented
Covers(a, b) ==
    RangeCovers(OrientedKeys(_extract_code_range(a.path, catalog_path_prefix)),
                OrientedKeys(_extract_code_range(b.path, catalog_path_prefix)))

Retained(cand) == cand.url \in Range(ret)

InRet(url) == url \in Range(ret)

\* C3: a candidate is dropped if and only if it has a code range and a range
\* accepted earlier in the pass contains it; so a candidate without a range is
\* never dropped and never makes another one drop; the retained URLs keep the
\* order of the input.
C3_DroppedIffCoveredByEarlierAccepted ==
    pc = "filtered" =>
        /\ \A i \in DOMAIN arg :
            ~Retained(arg[i]) <=>
                /\ HasRange(arg[i])
                /\ \E j \in 1..(i - 1) :
                    Retained(arg[j]) /\ HasRange(arg[j]) /\ Covers(arg[j], arg[i])
        /\ ret = SelectSeq([i \in DOMAIN arg |-> arg[i].url], InRet)

\* C3 witness: a pass that dropped a covered candidate and kept one without a
\* range that came before it.
C3_Witness ==
    /\ pc = "filtered"
    /\ \E i, j \in DOMAIN arg :
        /\ i < j
        /\ ~HasRange(arg[i])
        /\ Retained(arg[i])
        /\ ~Retained(arg[j])

\* C4 as stated: whatever the order of the candidates, no retained URL has a
\* range covered by the range of another retained URL.
C4_NoRetainedRangeCovered ==
    pc = "filtered" =>
        \A i, j \in DOMAIN arg :
            (i # j /\ Retained(arg[i]) /\ Retained(arg[j])
                   /\ HasRange(arg[i]) /\ HasRange(arg[j]))
                => ~Covers(arg[i], arg[j])

\* C4 amended: no retained URL has a range covered by the range of a retained
\* URL that comes before it in the candidate order.
C4_NoRetainedRangeCoveredByEarlier ==
    pc = "filtered" =>
        \A i, j \in DOMAIN arg :
            (i < j /\ Retained(arg[i]) /\ Retained(arg[j])
                   /\ HasRange(arg[i]) /\ HasRange(arg[j]))
                => ~Covers(arg[i], arg[j])

\* C4 witness: a pass that dropped a candidate and kept two with a range, the
\* later of which covers the earlier.
C4_Witness ==
    /\ pc = "filtered"
    /\ \E i \in DOMAIN arg : ~Retained(arg[i])
    /\ \E i, j \in DOMAIN arg :
        /\ i < j
        /\ Retained(arg[i]) /\ Retained(arg[j])
        /\ HasRange(arg[i]) /\ HasRange(arg[j])
        /\ Covers(arg[j], arg[i])

\* C5: a fetch that fails is the last thing the crawl does: scrape() raises
\* what the fetch raised, for that URL, nothing is fetched after it (the
\* failed URL included) and no entry list is returned.
C5_FetchFailureAborts ==
    \A i \in DOMAIN log :
        (log[i].kind = "fetch" /\ log[i].outcome # "ok") =>
            /\ i = Len(log)
            /\ pc = "raised"
            /\ error = <<log[i].outcome, log[i].url>>
            /\ result = <<>>

\* C5 witness: the index page and one catalogue page were fetched, and the
\* fetch of the next catalogue page failed.
C5_Witness ==
    /\ pc = "raised"
    /\ FetchFailed
    /\ Len(SelectSeq(log, IsFetch)) = 3
    /\ entries # <<>>

\* C6: with a positive delay, a crawl that returns has paused between every two
\* successive fetches, the index fetch and the first catalogue fetch included,
\* not before the first fetch and not after the last.
C6_PauseBetweenFetches ==
    (pc = "done" /\ delay > 0) =>
        /\ log[1].kind = "fetch"
        /\ log[Len(log)].kind = "fetch"
        /\ \A i \in 1..(Len(log) - 1) :
            (log[i].kind = "fetch") <=> (log[i + 1].kind = "sleep")

\* what the code does instead: it pauses between two successive catalogue
\* fetches only.
C6_PauseBetweenCatalogueFetches ==
    (pc = "done" /\ delay > 0) =>
        /\ log[1].kind = "fetch"
        /\ log[Len(log)].kind = "fetch"
        /\ \A i \in 2..(Len(log) - 1) :
            (log[i].kind = "fetch") <=> (log[i + 1].kind = "sleep")
        /\ Len(log) >= 2 => log[2].kind = "fetch"

\* C7: every entry scrape() returns has a code and a primary text that are not
\* empty; no candidate whose primary text is empty after normalisation and
\* repair gets into the entries of a page or of the crawl, and the merge loses
\* no code.
C7_ReturnedEntriesHavePrimaryText ==
    /\ \A i \in DOMAIN page_entries :
        page_entries[i].code # <<>> /\ page_entries[i].serbian # <<>>
    /\ \A i \in DOMAIN entries :
        entries[i].code # <<>> /\ entries[i].serbian # <<>>
    /\ pc = "done" =>
        /\ \A i \in DOMAIN result :
            result[i].code # <<>> /\ result[i].serbian # <<>>
        /\ Codes(result) = Codes(entries)

\* C7 witness: a crawl returned entries after its last page had a candidate
\* dropped and the merge had joined duplicates.
C7_Witness ==
    /\ pc = "done"
    /\ dropped > 0
    /\ result # <<>>
    /\ Len(result) < Len(entries)

\* C8: the list scrape() returns holds each code once, in strictly ascending
\* order of its sort key, whatever order the pages gave the entries in.
C8_ResultStrictlyAscending ==
    pc = "done" =>
        \A i \in 1..(Len(result) - 1) :
            KeyLess(_code_sort_key(result[i].code), _code_sort_key(result[i + 1].code))

\* C8 witness: a crawl returned two or more entries that the pages gave out of
\* order and with a code twice.
C8_Witness ==
    /\ pc = "done"
    /\ Len(result) >= 2
    /\ Len(result) < Len(entries)
    /\ \E i \in 1..(Len(entries) - 1) :
        KeyLess(_code_sort_key(entries[i + 1].code), _code_sort_key(entries[i].code))

\* C9: the key of a string that does not parse is greater than the key of every
\* valid code, and keys of strings that do not parse are ordered as the strings.
C9_UnparseableSortsAfterValid ==
    pc = "keyed" =>
        /\ (~SortKeyParses(arg[1]) /\ _is_code(arg[2])) => KeyLess(ret[2], ret[1])
        /\ (~SortKeyParses(arg[1]) /\ ~SortKeyParses(arg[2]))
              => (KeyLess(ret[1], ret[2]) <=> StrLess(arg[1], arg[2]))

\* C10: normalising a normalised text changes nothing.
C10_NormalizeIdempotent ==
    pc = "normalized" => _normalize_text(ret) = ret

\* a letter or a digit: a character that continues a word
IsWordChar(c) == c \in UpperLetters \/ c \in LowerLetters \/ IsDigit(c)

\* value starts with the label as a whole word
StartsWithToken(value, label) ==
    /\ MatchesLabel(value, label)
    /\ Len(value) > Len(label) => ~IsWordChar(value[Len(label) + 1])

StartsWithLabelToken(value) == \E i \in DOMAIN Labels : StartsWithToken(value, Labels[i])

SeparatorChars == {" ", "-", ":", "NDASH"}

\* C11: _strip_labels returns a text that does not start with a label token
\* unchanged, and removes from a text that does start with one just the label
\* and the optional separator after it.
C11_StripOnlyLeadingLabel ==
    pc = "stripped" =>
        IF StartsWithLabelToken(arg)
        THEN ret = Drop(arg, LabelMatchLen(arg))
        ELSE ret = arg

\* C11, what _strip_labels does keep: a text that no label is a prefix of and
\* that neither begins nor ends with a separator character comes back unchanged.
C11_UnchangedWithoutLabelPrefixOrSeparator ==
    (/\ pc = "stripped"
     /\ arg # <<>>
     /\ LabelMatchLen(arg) = 0
     /\ arg[1] \notin SeparatorChars
     /\ arg[Len(arg)] \notin SeparatorChars) => ret = arg

\* C11, the cases the claim names, each altered by _strip_labels: a leading
\* separator, a trailing separator, and a word that begins with "opis"
C11_SeparatorOrLabelPrefixAltered ==
    /\ _strip_labels(<<"-", "x">>) = <<"x">>
    /\ _strip_labels(<<"x", ":">>) = <<"x">>
    /\ _strip_labels(<<"o", "p", "i", "s", "x">>) = <<"x">>
    /\ _strip_labels(<<"o", "p", "i", "s", ":", " ", "x", "-">>) = <<"x">>

\* t is white space, a hyphen or an en dash, white space
SpacedDash(t) ==
    \E k \in 2..(Len(t) - 1) :
        /\ t[k] \in {"-", "NDASH"}
        /\ \A i \in 1..(k - 1) : IsSpace(t[i])
        /\ \A i \in (k + 1)..Len(t) : IsSpace(t[i])

StartsWithSpacedDash(t) == \E m \in 3..Len(t) : SpacedDash(Take(t, m))

EndsWithSpacedDash(t) == \E m \in 3..Len(t) : SpacedDash(Drop(t, Len(t) - m))

HasSpacedDash(t) == \E i \in 0..Len(t) : StartsWithSpacedDash(Drop(t, i))

\* p is the text before the first spaced dash of t
IsFirstSegment(t, p) ==
    \E n \in 0..Len(t) :
        /\ p = strip(Take(t, n))
        /\ ~HasSpacedDash(Take(t, n))
        /\ StartsWithSpacedDash(Drop(t, n))

\* q is the text after the last spaced dash of t
IsLastSegment(t, q) ==
    \E n \in 0..Len(t) :
        /\ q = strip(Drop(t, n))
        /\ ~HasSpacedDash(Drop(t, n))
        /\ EndsWithSpacedDash(Take(t, n))

\* a text field label-stripped, normalised and blanked when it is a code
Cleaned(text) == BlankIfCode(_strip_labels(_normalize_text(text)))

\* the outcome the repair rule prescribes for the cleaned fields
RepairRule(code, serbian, latin, out) ==
    IF serbian = <<>> /\ latin # <<>> /\ HasSpacedDash(latin)
    THEN /\ out # <<>>
         /\ out[1].code = code
         /\ IsFirstSegment(latin, out[1].serbian)
         /\ IsLastSegment(latin, out[1].latin)
    ELSE IF serbian = <<>>
         THEN out = <<>>
         ELSE out = <<MKBEntry(code, serbian, latin)>>

\* C12: with both fields cleaned, an entry without primary text whose alternate
\* text splits on a spaced hyphen or en dash gets the first segment as primary
\* and the last as alternate text; an entry still without primary text is
\* none; any other entry keeps its code and the cleaned fields.
C12_RepairOrDiscard ==
    pc = "normalised" =>
        RepairRule(arg.code, Cleaned(arg.serbian), Cleaned(arg.latin), ret)

\* an alternate text of three segments repaired an entry without primary text
C12_Witness ==
    /\ pc = "normalised"
    /\ Cleaned(arg.serbian) = <<>>
    /\ arg.code = B00
    /\ ret = <<MKBEntry(B00, <<"x">>, <<"z">>)>>

\* applying _normalize_text and _strip_labels again leaves text unchanged
IsClean(text) == CleanText(text) = text

\* C13: every strategy returns only entries with a valid code whose text
\* fields are label-stripped and normalised already.
C13_StrategiesReturnCleanEntries ==
    pc = "parsed" =>
        \A i \in DOMAIN ret :
            _is_code(ret[i].code) /\ IsClean(ret[i].serbian) /\ IsClean(ret[i].latin)

\* C13, the part that holds: every strategy returns only entries with a
\* valid code.
C13_StrategiesReturnValidCodes ==
    pc = "parsed" => \A i \in DOMAIN ret : _is_code(ret[i].code)

\* C13, the heading strategy: the primary text keeps its label
C13_HeadingKeepsLabel ==
    (/\ pc = "parsed"
     /\ arg.kind = "heading"
     /\ arg.text = A00 \o <<" ">> \o Naziv_x) => ret[1].serbian = Naziv_x

\* C13, the free-text strategy: the second part keeps its label
C13_TextLineKeepsLabel ==
    (/\ pc = "parsed"
     /\ arg.kind = "text"
     /\ arg.line = A00 \o <<" ", "x", " ", "-", " ">> \o Latin_y) => ret[1].latin = Latin_y

\* the URLs fetched so far, in the order of the fetches
RECURSIVE FetchedUrls(_)
FetchedUrls(events) ==
    IF events = <<>> THEN <<>>
    ELSE IF IsFetch(Head(events)) THEN <<Head(events).url>> \o FetchedUrls(Tail(events))
    ELSE FetchedUrls(Tail(events))

NoDuplicates(seq) == \A i, j \in DOMAIN seq : i # j => seq[i] # seq[j]

IsPrefix(p, seq) == Len(p) <= Len(seq) /\ p = Take(seq, Len(p))

\* the fetches are the index URL, then the retained URLs in their order
FetchesInOrder(urls) ==
    urls # <<>> => urls[1] = index_url /\ IsPrefix(Tail(urls), catalog_pages)

\* C14: whatever the index path and the links of the index page, no URL is
\* fetched more than once: the index URL first, then every retained
\* catalogue URL once, in discovery order.
C14_NoUrlFetchedTwice ==
    NoDuplicates(FetchedUrls(log)) /\ FetchesInOrder(FetchedUrls(log))

\* C14, the part that holds: the index URL is fetched first, then the
\* retained catalogue URLs in their order, each of them once.
C14_FetchesFollowRetainedUrls ==
    FetchesInOrder(FetchedUrls(log)) /\ NoDuplicates(catalog_pages)

\* C14, with the index path outside the catalogue path prefix: no URL is
\* fetched more than once.
C14_NoUrlFetchedTwiceOutsidePrefix ==
    ~StartsWith(index_path, catalog_path_prefix) => NoDuplicates(FetchedUrls(log))

\* C14, the links of an index page under the catalogue path prefix: a link to
\* the index page itself is a retained catalogue URL
C14_IndexUrlRetained ==
    (pc = "done" /\ index_url \in Range(catalog_pages))
        => Len(FetchedUrls(log)) = 1 + Len(catalog_pages)

====
